---- MODULE Spec2Model ----
(***************************************************************************)
(* A model of src/src/lib.rs of fib-tour: the functions that compute the   *)
(* n-th Fibonacci number as an Option<u32>.  One caller picks an input n   *)
(* and calls the functions one after another; every function runs as a     *)
(* small-step process over its own local variables.                        *)
(*                                                                         *)
(* TLC's integers are 32-bit signed, so a u32 is kept as two 16-bit        *)
(* half-words <<high, low>>, and an unbounded natural number (the true     *)
(* Fibonacci numbers) as a little-endian sequence of 16-bit limbs.         *)
(*                                                                         *)
(* usize is the usize of a 32-bit target (isize::MAX = 2^31 - 1).  On a    *)
(* 64-bit target the same code paths are taken at 2^63 - 1.                *)
(*                                                                         *)
(* fib_closed is not modelled: its result is decided by f64 rounding and   *)
(* by the platform's powf, neither of which is code of this repository.    *)
(***************************************************************************)
EXTENDS Integers, Sequences, FiniteSets, TLC

VARIABLES n, fn, pc, dp, x, y, m, regs, state, item, i, steps, ret, prev

vars == <<n, fn, pc, dp, x, y, m, regs, state, item, i, steps, ret, prev>>

(* ------------------------------ bounds -------------------------------- *)

\* Inputs 0..MaxN are tried, and one very large input.
MaxN == 100

(* ------------------------------ Option -------------------------------- *)

None == <<>>
Some(v) == <<v>>

(* ------------------------------- u32 ---------------------------------- *)

Half == 2^16

Zero == <<0, 0>>
One == <<0, 1>>

\* u32::wrapping_add: the sum modulo 2^32.
wrapping_add(a, b) ==
    LET l == a[2] + b[2]
        h == a[1] + b[1] + (l \div Half)
    IN  <<h % Half, l % Half>>

\* A plausible slip: checked_add that does not detect the overflow.
checked_add_unchecked(a, b) == Some(wrapping_add(a, b))

\* u32::checked_add: None when the sum does not fit in 32 bits.
checked_add(a, b) ==
    LET l == a[2] + b[2]
        h == a[1] + b[1] + (l \div Half)
    IN  IF h >= Half THEN None ELSE Some(<<h, l % Half>>)

\* The `+` of u32: an overflow panics in a build with overflow checks and
\* wraps in a build without them.  None stands for the panic.
plain_add(a, b) ==
    IF checked_add(a, b) = None
    THEN {None, Some(wrapping_add(a, b))}
    ELSE {checked_add(a, b)}

RECURSIVE And16(_, _, _)
\* Bitwise and of two half-words, bit by bit (k bits left).
And16(a, b, k) ==
    IF k = 0 THEN 0
    ELSE (a % 2) * (b % 2) + 2 * And16(a \div 2, b \div 2, k - 1)

RECURSIVE Xor16(_, _, _)
Xor16(a, b, k) ==
    IF k = 0 THEN 0
    ELSE ((a + b) % 2) + 2 * Xor16(a \div 2, b \div 2, k - 1)

\* a & b, a ^ b, a >> 1 and !0 on u32.
BitAnd(a, b) == <<And16(a[1], b[1], 16), And16(a[2], b[2], 16)>>
BitXor(a, b) == <<Xor16(a[1], b[1], 16), Xor16(a[2], b[2], 16)>>
Shr1(a) == <<a[1] \div 2, (a[2] \div 2) + (a[1] % 2) * (Half \div 2)>>
NotZero == <<Half - 1, Half - 1>>

(* --------------------------- usize and Vec ----------------------------- *)

\* isize::MAX of the target (2^31 - 1, written so that no 2^31 is computed).
isize_MAX == (2^30 - 1) + 2^30

\* size_of::<u32>()
size_of_u32 == 32 \div 8

\* The very large input: the largest usize the model's integers hold.
BigN == isize_MAX

Inputs == (0..MaxN) \cup {BigN}

\* Vec::<u32>::with_capacity(cap) panics ("capacity overflow") when the
\* buffer would be larger than isize::MAX bytes.
with_capacity_panics(cap) == cap > isize_MAX \div size_of_u32

\* slice::get with a 0-based index.
Get(v, k) == IF k >= 0 /\ k < Len(v) THEN Some(v[k + 1]) ELSE None

(* ------------------ the true (unbounded) Fibonacci numbers ------------- *)

RECURSIVE BigAddC(_, _, _)
\* The sum of two limb sequences and a carry.
BigAddC(a, b, c) ==
    IF a = <<>> /\ b = <<>> THEN (IF c = 0 THEN <<>> ELSE <<c>>)
    ELSE LET da == IF a = <<>> THEN 0 ELSE Head(a)
             db == IF b = <<>> THEN 0 ELSE Head(b)
             s == da + db + c
         IN  <<s % Half>> \o BigAddC(IF a = <<>> THEN a ELSE Tail(a),
                                     IF b = <<>> THEN b ELSE Tail(b),
                                     s \div Half)

BigAdd(a, b) == BigAddC(a, b, 0)

\* A u32 as a limb sequence (no leading zero limb), and back.
ToBig(v) == IF v[1] # 0 THEN <<v[2], v[1]>> ELSE IF v[2] # 0 THEN <<v[2]>> ELSE <<>>
FitsU32(b) == Len(b) <= 2
FromBig(b) == <<IF Len(b) >= 2 THEN b[2] ELSE 0, IF Len(b) >= 1 THEN b[1] ELSE 0>>

\* s with one more term: the sum of its last two.
FibNext(s) == Append(s, BigAdd(s[Len(s)], s[Len(s) - 1]))

RECURSIVE FibExtend(_, _)
\* s with k more terms of the recurrence F(j) = F(j-1) + F(j-2).  k is
\* halved, and Len(s) is asked for first so that s is evaluated before the
\* terms that follow it: the evaluation stays shallow.
FibExtend(s, k) ==
    IF Len(s) < 2 \/ k = 0 THEN s
    ELSE IF k = 1 THEN FibNext(s)
    ELSE FibExtend(FibExtend(s, k \div 2), k - (k \div 2))

\* <<F(0), F(1), ..., F(MaxN + 1)>>
FibTable == FibExtend(<<ToBig(Zero), ToBig(One)>>, MaxN)

\* F(k) for 0 <= k <= MaxN + 1.
Fib(k) == FibTable[k + 1]

(* ----------------------------- the caller ------------------------------ *)

\* A call may start when no call is running.
Idle == pc \in {"idle", "done"}

\* Entering function f: the input stays, the finished call (if any) is
\* remembered in prev, and no loop body has run yet.
Enter(f) ==
    /\ Idle
    /\ fn' = f
    /\ n' = n
    /\ steps' = 0
    /\ prev' = IF pc = "done" THEN Some(<<fn, ret>>) ELSE prev

(* ------------------------------ fib_vec -------------------------------- *)

\* A plausible slip: the cut-off one too high.
fib_vec_limit_late == 48 + 1

\* The n >= 48 cut-off of fib_vec.
fib_vec_limit == 48

fib_vec_call ==
    /\ Enter("fib_vec")
    /\ IF n = 0
       THEN pc' = "done" /\ ret' = Some(Zero) /\ dp' = <<>> /\ i' = 0
       ELSE IF n >= fib_vec_limit
            THEN pc' = "done" /\ ret' = None /\ dp' = <<>> /\ i' = 0
            ELSE pc' = "loop" /\ ret' = None /\ dp' = <<Zero, One>> /\ i' = 2
    /\ x' = Zero /\ y' = Zero /\ m' = 0
    /\ regs' = None /\ state' = None /\ item' = None

\* One pass of `for i in 2..=n`: two get().unwrap(), a `+`, a push.
fib_vec_loop ==
    /\ fn = "fib_vec" /\ pc = "loop" /\ i <= n
    /\ steps' = steps + 1
    /\ LET a == Get(dp, i - 2)
           b == Get(dp, i - 1)
       IN  IF a = None \/ b = None
           THEN pc' = "panic" /\ UNCHANGED <<dp, i>>
           ELSE \E s \in plain_add(a[1], b[1]) :
                   IF s = None
                   THEN pc' = "panic" /\ UNCHANGED <<dp, i>>
                   ELSE pc' = "loop" /\ dp' = Append(dp, s[1]) /\ i' = i + 1
    /\ UNCHANGED <<n, fn, x, y, m, regs, state, item, ret, prev>>

\* `Some(*dp.last().unwrap())` once the range is used up.
fib_vec_return ==
    /\ fn = "fib_vec" /\ pc = "loop" /\ i > n
    /\ IF Get(dp, Len(dp) - 1) = None
       THEN pc' = "panic" /\ ret' = ret
       ELSE pc' = "done" /\ ret' = Some(dp[Len(dp)])
    /\ UNCHANGED <<n, fn, dp, x, y, m, regs, state, item, i, steps, prev>>

(* --------------------------- fib_vec_fancy ----------------------------- *)

fib_vec_fancy_call ==
    /\ Enter("fib_vec_fancy")
    /\ IF with_capacity_panics(n)
       THEN pc' = "panic" /\ dp' = <<>> /\ i' = 0
       ELSE pc' = "loop" /\ dp' = <<Zero, One>> /\ i' = 2
    /\ ret' = None
    /\ x' = Zero /\ y' = Zero /\ m' = 0
    /\ regs' = None /\ state' = None /\ item' = None

\* One pass of `for i in 2..=n`: two indexings, checked_add with `?`, a push.
fib_vec_fancy_loop ==
    /\ fn = "fib_vec_fancy" /\ pc = "loop" /\ i <= n
    /\ steps' = steps + 1
    /\ LET a == Get(dp, i - 2)
           b == Get(dp, i - 1)
       IN  IF a = None \/ b = None
           THEN pc' = "panic" /\ UNCHANGED <<dp, i, ret>>
           ELSE LET s == checked_add(a[1], b[1])
                IN  IF s = None
                    THEN pc' = "done" /\ ret' = None /\ UNCHANGED <<dp, i>>
                    ELSE pc' = "loop" /\ dp' = Append(dp, s[1]) /\ i' = i + 1
                         /\ ret' = ret
    /\ UNCHANGED <<n, fn, x, y, m, regs, state, item, prev>>

\* `Some(dp[n])` once the range is used up.
fib_vec_fancy_return ==
    /\ fn = "fib_vec_fancy" /\ pc = "loop" /\ i > n
    /\ IF Get(dp, n) = None
       THEN pc' = "panic" /\ ret' = ret
       ELSE pc' = "done" /\ ret' = Get(dp, n)
    /\ UNCHANGED <<n, fn, dp, x, y, m, regs, state, item, i, steps, prev>>

(* ----------------------------- fib_array ------------------------------- *)

fib_array_call ==
    /\ Enter("fib_array")
    /\ IF n = 0
       THEN pc' = "done" /\ ret' = Some(Zero) /\ dp' = <<>>
       ELSE pc' = "loop" /\ ret' = None /\ dp' = <<Zero, One>>
    /\ i' = 0
    /\ x' = Zero /\ y' = Zero /\ m' = 0
    /\ regs' = None /\ state' = None /\ item' = None

\* One pass of `for _ in 0..n - 1`; i is the place in the range.
fib_array_loop ==
    /\ fn = "fib_array" /\ pc = "loop" /\ i < n - 1
    /\ steps' = steps + 1
    /\ LET s == checked_add(dp[1], dp[2])
       IN  IF s = None
           THEN pc' = "done" /\ ret' = None /\ UNCHANGED <<dp, i>>
           ELSE pc' = "loop" /\ dp' = <<dp[2], s[1]>> /\ i' = i + 1 /\ ret' = ret
    /\ UNCHANGED <<n, fn, x, y, m, regs, state, item, prev>>

\* `Some(dp[1])` once the range is used up.
fib_array_return ==
    /\ fn = "fib_array" /\ pc = "loop" /\ i >= n - 1
    /\ pc' = "done" /\ ret' = Some(dp[2])
    /\ UNCHANGED <<n, fn, dp, x, y, m, regs, state, item, i, steps, prev>>

(* --------------------------- fib_registered ---------------------------- *)

\* A plausible slip: `!0 ^ (!0 >> 2)`, the two highest bits.
hi_two_bits == BitXor(NotZero, Shr1(Shr1(NotZero)))

\* `!0 ^ (!0 >> 1)`: the highest bit of a u32.
hi == BitXor(NotZero, Shr1(NotZero))

\* A plausible slip: the registers start one term late, at (F(1), F(2)).
fib_registered_start_late == <<One, One>>

\* The registers before the loop: x = 0, y = 1.
fib_registered_start == <<Zero, One>>

\* A plausible slip: the test of y never fires.
y_is_last_never(v) == FALSE

\* `y & hi == 0` fails: y holds a value with the high bit set.
y_is_last(v) == BitAnd(v, hi) # Zero

fib_registered_call ==
    /\ Enter("fib_registered")
    /\ x' = fib_registered_start[1]
    /\ y' = fib_registered_start[2]
    /\ m' = n - (n % 2)
    /\ pc' = "loop"
    /\ ret' = None /\ dp' = <<>> /\ i' = 0
    /\ regs' = None /\ state' = None /\ item' = None

\* First half of the loop body: test y, then x = x.wrapping_add(y).
fib_registered_x ==
    /\ fn = "fib_registered" /\ pc = "loop" /\ m > 0
    /\ steps' = steps + 1
    /\ IF ~y_is_last(y)
       THEN x' = wrapping_add(x, y) /\ pc' = "mid"
       ELSE x' = x /\ pc' = "after"
    /\ UNCHANGED <<n, fn, dp, y, m, regs, state, item, i, ret, prev>>

\* Second half: test x, then y = y.wrapping_add(x) and m -= 2.
fib_registered_y ==
    /\ fn = "fib_registered" /\ pc = "mid"
    /\ IF BitAnd(x, hi) = Zero
       THEN y' = wrapping_add(y, x) /\ m' = m - 2 /\ pc' = "loop"
       ELSE y' = y /\ m' = m /\ pc' = "after"
    /\ UNCHANGED <<n, fn, dp, x, regs, state, item, i, steps, ret, prev>>

\* The if-chain after the loop.
fib_registered_return ==
    /\ fn = "fib_registered"
    /\ pc \in {"loop", "after"}
    /\ pc = "loop" => m = 0
    /\ pc' = "done"
    /\ ret' = IF m > 0 THEN None
              ELSE IF n % 2 = 0 THEN Some(x)
              ELSE IF BitAnd(x, hi) = Zero THEN Some(y)
              ELSE None
    /\ UNCHANGED <<n, fn, dp, x, y, m, regs, state, item, i, steps, prev>>

(* ------------------------------ fib_fold ------------------------------- *)

\* The closure of the fold: regs.and_then(|(x, y)| checked_add(x, y).map(|z| (z, x))).
fold_step(r) ==
    IF r = None THEN None
    ELSE LET z == checked_add(r[1][1], r[1][2])
         IN  IF z = None THEN None ELSE Some(<<z[1], r[1][1]>>)

fib_fold_call ==
    /\ Enter("fib_fold")
    /\ regs' = Some(<<Zero, One>>)
    /\ i' = 0
    /\ pc' = "loop"
    /\ ret' = None /\ dp' = <<>>
    /\ x' = Zero /\ y' = Zero /\ m' = 0
    /\ state' = None /\ item' = None

\* One step of the fold over 0..n.  The model follows at most MaxN + 1 steps
\* of a call.
fib_fold_loop ==
    /\ fn = "fib_fold" /\ pc = "loop" /\ i < n
    /\ i <= MaxN
    /\ steps' = steps + 1
    /\ regs' = fold_step(regs)
    /\ i' = i + 1
    /\ UNCHANGED <<n, fn, pc, dp, x, y, m, state, item, ret, prev>>

\* `.map(|(x, _)| x)` on the fold's result.
fib_fold_return ==
    /\ fn = "fib_fold" /\ pc = "loop" /\ i >= n
    /\ pc' = "done"
    /\ ret' = IF regs = None THEN None ELSE Some(regs[1][1])
    /\ UNCHANGED <<n, fn, dp, x, y, m, regs, state, item, i, steps, prev>>

(* ------------------------------ fib_lazy ------------------------------- *)

\* A plausible slip: the closure yields the new term z instead of x.
advance_yields_new(s) ==
    IF s = None THEN <<None, None>>
    ELSE LET z == checked_add(s[1][1], s[1][2])
         IN  <<IF z = None THEN None ELSE z,
               IF z = None THEN None ELSE Some(<<z[1], s[1][1]>>)>>

\* The closure `advance`: <<the item it yields, the state it leaves>>.
advance(s) ==
    IF s = None THEN <<None, None>>
    ELSE LET z == checked_add(s[1][1], s[1][2])
         IN  <<Some(s[1][1]),
               IF z = None THEN None ELSE Some(<<z[1], s[1][1]>>)>>

fib_lazy_call ==
    /\ Enter("fib_lazy")
    /\ state' = Some(<<Zero, One>>)
    /\ item' = None
    /\ i' = n
    /\ pc' = "loop"
    /\ ret' = None /\ dp' = <<>>
    /\ x' = Zero /\ y' = Zero /\ m' = 0
    /\ regs' = None

\* A plausible slip: nth keeps pulling after a pull that yields nothing.
nth_stops_never(it) == FALSE

\* Iterator::nth gives up at the first pull that yields nothing.
nth_stops(it) == it = None

\* One pull of `from_fn(advance).nth(n)`: nth drops n items and returns the
\* next one; i is the number of items still to drop.
fib_lazy_pull ==
    /\ fn = "fib_lazy" /\ pc = "loop"
    /\ steps' = steps + 1
    /\ LET r == advance(state)
       IN  /\ item' = r[1]
           /\ state' = r[2]
           /\ IF nth_stops(r[1])
              THEN pc' = "done" /\ ret' = None /\ i' = i
              ELSE IF i = 0
                   THEN pc' = "done" /\ ret' = r[1] /\ i' = i
                   ELSE pc' = "loop" /\ ret' = ret /\ i' = i - 1
    /\ UNCHANGED <<n, fn, dp, x, y, m, regs, prev>>

(* ----------------------------- fib_lookup ------------------------------ *)

\* The table F of fib_lookup, each entry as <<high half, low half>>.
F ==
    <<
       <<0, 0>>,   \* 0
       <<0, 1>>,   \* 1
       <<0, 1>>,   \* 1
       <<0, 2>>,   \* 2
       <<0, 3>>,   \* 3
       <<0, 5>>,   \* 5
       <<0, 8>>,   \* 8
       <<0, 13>>,   \* 13
       <<0, 21>>,   \* 21
       <<0, 34>>,   \* 34
       <<0, 55>>,   \* 55
       <<0, 89>>,   \* 89
       <<0, 144>>,   \* 144
       <<0, 233>>,   \* 233
       <<0, 377>>,   \* 377
       <<0, 610>>,   \* 610
       <<0, 987>>,   \* 987
       <<0, 1597>>,   \* 1597
       <<0, 2584>>,   \* 2584
       <<0, 4181>>,   \* 4181
       <<0, 6765>>,   \* 6765
       <<0, 10946>>,   \* 10946
       <<0, 17711>>,   \* 17711
       <<0, 28657>>,   \* 28657
       <<0, 46368>>,   \* 46368
       <<1, 9489>>,   \* 75025
       <<1, 55857>>,   \* 121393
       <<2, 65346>>,   \* 196418
       <<4, 55667>>,   \* 317811
       <<7, 55477>>,   \* 514229
       <<12, 45608>>,   \* 832040
       <<20, 35549>>,   \* 1346269
       <<33, 15621>>,   \* 2178309
       <<53, 51170>>,   \* 3524578
       <<87, 1255>>,   \* 5702887
       <<140, 52425>>,   \* 9227465
       <<227, 53680>>,   \* 14930352
       <<368, 40569>>,   \* 24157817
       <<596, 28713>>,   \* 39088169
       <<965, 3746>>,   \* 63245986
       <<1561, 32459>>,   \* 102334155
       <<2526, 36205>>,   \* 165580141
       <<4088, 3128>>,   \* 267914296
       <<6614, 39333>>,   \* 433494437
       <<10702, 42461>>,   \* 701408733
       <<17317, 16258>>,   \* 1134903170
       <<28019, 58719>>,   \* 1836311903
       <<45337, 9441>>    \* 2971215073
    >>

\* `F.get(n).copied()`
fib_lookup_call ==
    /\ Enter("fib_lookup")
    /\ pc' = "done"
    /\ ret' = Get(F, n)
    /\ dp' = <<>> /\ i' = 0
    /\ x' = Zero /\ y' = Zero /\ m' = 0
    /\ regs' = None /\ state' = None /\ item' = None

(* -------------------------- the specification -------------------------- *)

Init ==
    /\ n \in Inputs
    /\ fn = "none"
    /\ pc = "idle"
    /\ dp = <<>>
    /\ x = Zero /\ y = Zero /\ m = 0
    /\ regs = None /\ state = None /\ item = None
    /\ i = 0
    /\ steps = 0
    /\ ret = None
    /\ prev = None

Next ==
    \/ fib_vec_call \/ fib_vec_loop \/ fib_vec_return
    \/ fib_vec_fancy_call \/ fib_vec_fancy_loop \/ fib_vec_fancy_return
    \/ fib_array_call \/ fib_array_loop \/ fib_array_return
    \/ fib_registered_call \/ fib_registered_x \/ fib_registered_y
    \/ fib_registered_return
    \/ fib_fold_call \/ fib_fold_loop \/ fib_fold_return
    \/ fib_lazy_call \/ fib_lazy_pull
    \/ fib_lookup_call

Spec == Init /\ [][Next]_vars

(* ------------------------------ the claims ----------------------------- *)

\* The result the crate's documentation promises for input k: Some(F(k))
\* when F(k) fits in a u32 and None otherwise.  F grows with k, so past the
\* table of true values nothing fits.
Expected(k) ==
    IF k <= MaxN + 1 /\ FitsU32(Fib(k)) THEN Some(FromBig(Fib(k))) ELSE None

\* Bit 31 of a u32 is set.
Bit31(v) == v[1] >= Half \div 2

\* C1: for every n in 0..MaxN the seven integer functions return the same
\* result: whenever a call returns after another call on the same n has
\* returned, the two results are equal (the calls come in every order).
C1_Agreement ==
    (pc = "done" /\ prev # None /\ n <= MaxN) => ret = prev[1][2]

\* C1 witness: fib_registered returns Some(F(47)) right after fib_lookup did.
C1_Witness ==
    /\ pc = "done" /\ fn = "fib_registered" /\ n = 47
    /\ prev # None /\ prev[1][1] = "fib_lookup"
    /\ ret = Some(F[48])

\* C2: every call of an integer function returns, and returns Some(F(n))
\* with F the true recurrence when n <= 47 and None when n >= 48.
C2_Exact ==
    /\ pc # "panic"
    /\ pc = "done" => ret = Expected(n)

\* C2 on the inputs for which every call returns: the result is exact.
C2_ExactInRange ==
    (pc = "done" /\ n <= MaxN) => ret = Expected(n)

\* C3: no call panics or aborts, whatever n.
C3_NoPanic == pc # "panic"

\* C4 as stated: no call runs more than about 48 loop iterations, pulls or
\* fold steps, whatever n.
C4_Bounded == steps <= 50

\* C4 amended: every function but fib_fold runs at most 49 loop iterations
\* or pulls in one call, whatever n; fib_fold runs one fold step for each
\* element of 0..n, n steps in all.
C4_BoundedButFold ==
    /\ fn # "fib_fold" => steps <= 49
    /\ fn = "fib_fold" => steps = i /\ i <= n
    /\ (fn = "fib_fold" /\ pc = "done") => steps = n

\* C4 witness: fib_fold returns after 100 fold steps.
C4_Witness == fn = "fib_fold" /\ pc = "done" /\ n = MaxN /\ steps = MaxN

\* C6: in fib_lazy pull k (from 0) yields F(k) for k <= 47; the state is
\* None from the pull that yields F(47) on, and a pull from a None state
\* yields nothing and leaves None; the call returns what pull n yields, or
\* None when the sequence ends before it.
C6_Lazy ==
    fn = "fib_lazy" =>
        /\ steps >= 1 => item = Expected(steps - 1)
        /\ (steps >= 1 /\ steps <= 47) => state # None
        /\ steps >= 48 => state = None
        /\ state = None => advance(state) = <<None, None>>
        /\ (pc = "done" /\ n <= 47) => (steps = n + 1 /\ ret = item /\ ret # None)
        /\ (pc = "done" /\ n > 47) => (steps = 49 /\ ret = None /\ item = None)

\* C6 witness: pull 48 has yielded nothing and the call has returned None.
C6_Witness ==
    /\ fn = "fib_lazy" /\ pc = "done" /\ n = 60
    /\ steps = 49 /\ item = None /\ state = None /\ ret = None

\* C7 as stated: a sum wrapping_add is about to produce with bit 31 set is a
\* sum whose true value does not fit in 32 bits.
C7_HighBitMeansOverflow ==
    fn = "fib_registered" =>
        /\ (pc = "loop" /\ m > 0 /\ ~y_is_last(y) /\ Bit31(wrapping_add(x, y)))
               => ~FitsU32(BigAdd(ToBig(x), ToBig(y)))
        /\ (pc = "mid" /\ BitAnd(x, hi) = Zero /\ Bit31(wrapping_add(y, x)))
               => ~FitsU32(BigAdd(ToBig(y), ToBig(x)))

\* C7 amended: a register with bit 31 set holds F(47), which fits in 32 bits
\* and is committed; it is the next sum that does not fit, and the loop
\* breaks before that addition, with x = F(46) and y = F(47) untouched, and
\* the call returns None.
C7_HighBitMeansLast ==
    fn = "fib_registered" =>
        /\ Bit31(y) => (ToBig(y) = Fib(47) /\ ToBig(x) = Fib(46)
                        /\ ~FitsU32(BigAdd(ToBig(x), ToBig(y))))
        /\ (pc = "loop" /\ m > 0) => (y_is_last(y) <=> Bit31(y))
        /\ pc = "after" => (Bit31(y) /\ m > 0)
        /\ (pc = "done" /\ m > 0) => (Bit31(y) /\ ret = None)
        /\ (pc = "done" /\ n = 47) => (Bit31(y) /\ ret = Some(y))

\* C7 witness: the loop has broken on y = F(47) with iterations left.
C7_Witness ==
    /\ fn = "fib_registered" /\ pc = "after" /\ n = 48
    /\ m = 2 /\ Bit31(y)

\* C8: in fib_vec no access is out of bounds, no unwrap fails and no sum
\* overflows: each sum is F(i) with i <= 47.
C8_VecSafe ==
    fn = "fib_vec" =>
        /\ pc # "panic"
        /\ (pc = "loop" /\ i <= n) =>
              /\ Get(dp, i - 2) # None
              /\ Get(dp, i - 1) # None
              /\ checked_add(dp[i - 1], dp[i]) # None
              /\ i <= 47
              /\ BigAdd(ToBig(dp[i - 1]), ToBig(dp[i])) = Fib(i)
        /\ (pc = "loop" /\ i > n) => Get(dp, Len(dp) - 1) # None

\* C8 witness: fib_vec(47) has returned after 46 additions.
C8_Witness ==
    /\ fn = "fib_vec" /\ pc = "done" /\ n = 47 /\ steps = 46
    /\ ret = Some(F[48])

\* The number of completed passes of fib_registered's loop.
Passes == ((n - (n % 2)) - m) \div 2

\* C9: in fib_registered every wrapping_add that runs has a true sum that
\* fits in 32 bits; after j passes x = F(2j) and y = F(2j+1); a register
\* with bit 31 set holds F(47), the last Fibonacci number that fits.
C9_Registers ==
    fn = "fib_registered" =>
        /\ (pc = "loop" /\ m > 0 /\ ~y_is_last(y))
               => FitsU32(BigAdd(ToBig(x), ToBig(y)))
        /\ (pc = "mid" /\ BitAnd(x, hi) = Zero)
               => FitsU32(BigAdd(ToBig(y), ToBig(x)))
        /\ pc # "mid" => (ToBig(x) = Fib(2 * Passes) /\ ToBig(y) = Fib(2 * Passes + 1))
        /\ pc = "mid" => (ToBig(x) = Fib(2 * Passes + 2) /\ ToBig(y) = Fib(2 * Passes + 1))
        /\ Bit31(x) => ToBig(x) = Fib(47)
        /\ Bit31(y) => ToBig(y) = Fib(47)
        /\ FitsU32(Fib(47)) /\ ~FitsU32(Fib(48))

\* C9 witness: 23 passes have run and y = F(47) has bit 31 set.
C9_Witness ==
    /\ fn = "fib_registered" /\ pc = "loop" /\ n = 47 /\ m = 0
    /\ Passes = 23 /\ Bit31(y)

\* C10: in fib_registered x never has bit 31 set, so the break on x is never
\* taken and the last None of the if-chain is never returned; the call
\* returns None exactly when the loop broke on y with m > 0.
C10_XLow ==
    fn = "fib_registered" =>
        /\ ~Bit31(x)
        /\ BitAnd(x, hi) = Zero
        /\ pc = "after" => (y_is_last(y) /\ m > 0)
        /\ pc = "done" => (ret = None <=> (m > 0 /\ y_is_last(y)))

\* C10 witness: fib_registered returns None after breaking on y.
C10_Witness ==
    /\ fn = "fib_registered" /\ pc = "done" /\ n = MaxN
    /\ ret = None /\ m > 0 /\ y_is_last(y)

====
